---- MODULE Spec2Model ----
(***************************************************************************)
(* Model of growth_dash.gc_stats: the LMS growth-statistics engine.        *)
(*                                                                         *)
(*   core.py      weighted_avg, normsinv, normsdist, zscore_to_x,          *)
(*                x_to_zscore, percentile_to_x, x_to_percentile            *)
(*   gc_stats.py  GC_DATA, _percentile_cache, get_lms_table,               *)
(*                get_lms_for_x, lms_to_percentiles,                       *)
(*                load_percentile_cache, init, get_percentile_lines,       *)
(*                percentile, zscore                                       *)
(*                                                                         *)
(* Numbers are exact rationals <<n, d>> (d > 0, lowest terms).  A Python   *)
(* call ends in an outcome record: [kind |-> "value" | "raise" | ...].     *)
(***************************************************************************)
EXTENDS Integers, Sequences, FiniteSets, TLC

\* ------------------------------------------------------------------------
\* Bounds of the model
\* ------------------------------------------------------------------------
MaxReads == 3
MaxX == 3
MaxRows == 3
XDen == 2
MaxM == 4
MaxOver == 2

\* ------------------------------------------------------------------------
\* Exact rational arithmetic
\* ------------------------------------------------------------------------
Abs(n) == IF n < 0 THEN -n ELSE n

RECURSIVE GCD(_, _)
GCD(a, b) == IF b = 0 THEN a ELSE GCD(b, a % b)

Reduce(n, d, g) ==
  IF d < 0 THEN <<(-n) \div g, (-d) \div g>> ELSE <<n \div g, d \div g>>

Rat(n, d) == Reduce(n, d, GCD(Abs(n), Abs(d)))

R(n) == <<n, 1>>
RAdd(a, b) == Rat(a[1] * b[2] + b[1] * a[2], a[2] * b[2])
RSub(a, b) == Rat(a[1] * b[2] - b[1] * a[2], a[2] * b[2])
RMul(a, b) == Rat(a[1] * b[1], a[2] * b[2])
RDiv(a, b) == Rat(a[1] * b[2], a[2] * b[1])
RLt(a, b) == a[1] * b[2] < b[1] * a[2]
RLe(a, b) == a[1] * b[2] <= b[1] * a[2]
REq(a, b) == a[1] * b[2] = b[1] * a[2]

\* ------------------------------------------------------------------------
\* Outcomes of a call
\* ------------------------------------------------------------------------
None == [kind |-> "None"]
Raise(e) == [kind |-> "raise", exc |-> e]
Value(v) == [kind |-> "value", val |-> v]
IsRaise(o) == o.kind = "raise"
IsValue(o) == o.kind = "value"

\* ------------------------------------------------------------------------
\* core.py
\* ------------------------------------------------------------------------
\* a * weight + b * (1 - weight)
weighted_avg_swapped(a, b, weight) == RAdd(RMul(a, weight), RMul(b, RSub(R(1), weight)))

\* b * weight + a
weighted_avg_no_complement(a, b, weight) == RAdd(RMul(b, weight), a)

weighted_avg(a, b, weight) == RAdd(RMul(b, weight), RMul(a, RSub(R(1), weight)))

\* Break-point of normsinv's lower region, 0.02425.
plow == <<97, 4000>>
phigh == RSub(R(1), plow)

\* normsinv with the central approximation on all of (0, 1).
normsinv_region_central(p) ==
  IF RLe(p, R(0)) \/ RLe(R(1), p) THEN "domain_error" ELSE "central"

\* The region normsinv(p) computes in; math.log raises ValueError for an
\* argument <= 0, which is p <= 0 in the lower region and p >= 1 in the upper.
normsinv_region(p) ==
  IF RLt(p, plow) THEN (IF RLe(p, R(0)) THEN "domain_error" ELSE "lower")
  ELSE IF RLt(phigh, p) THEN (IF RLe(R(1), p) THEN "domain_error" ELSE "upper")
  ELSE "central"

\* The value of the rational approximations at the probabilities k / 100,
\* by percent and in 1/100 (the central region's numerator has the
\* factor q = p - 0.5, so it is exactly 0 at p = 0.5).
normsinv_table ==
  (1 :> -233) @@ (2 :> -205) @@ (3 :> -188) @@ (4 :> -175) @@ (5 :> -164) @@ (6 :> -155)
  @@ (7 :> -148) @@ (8 :> -141) @@ (9 :> -134) @@ (10 :> -128) @@ (11 :> -123) @@ (12 :> -117)
  @@ (13 :> -113) @@ (14 :> -108) @@ (15 :> -104) @@ (16 :> -99) @@ (17 :> -95) @@ (18 :> -92)
  @@ (19 :> -88) @@ (20 :> -84) @@ (21 :> -81) @@ (22 :> -77) @@ (23 :> -74) @@ (24 :> -71)
  @@ (25 :> -67) @@ (26 :> -64) @@ (27 :> -61) @@ (28 :> -58) @@ (29 :> -55) @@ (30 :> -52)
  @@ (31 :> -50) @@ (32 :> -47) @@ (33 :> -44) @@ (34 :> -41) @@ (35 :> -39) @@ (36 :> -36)
  @@ (37 :> -33) @@ (38 :> -31) @@ (39 :> -28) @@ (40 :> -25) @@ (41 :> -23) @@ (42 :> -20)
  @@ (43 :> -18) @@ (44 :> -15) @@ (45 :> -13) @@ (46 :> -10) @@ (47 :> -8) @@ (48 :> -5)
  @@ (49 :> -3) @@ (50 :> 0) @@ (51 :> 3) @@ (52 :> 5) @@ (53 :> 8) @@ (54 :> 10)
  @@ (55 :> 13) @@ (56 :> 15) @@ (57 :> 18) @@ (58 :> 20) @@ (59 :> 23) @@ (60 :> 25)
  @@ (61 :> 28) @@ (62 :> 31) @@ (63 :> 33) @@ (64 :> 36) @@ (65 :> 39) @@ (66 :> 41)
  @@ (67 :> 44) @@ (68 :> 47) @@ (69 :> 50) @@ (70 :> 52) @@ (71 :> 55) @@ (72 :> 58)
  @@ (73 :> 61) @@ (74 :> 64) @@ (75 :> 67) @@ (76 :> 71) @@ (77 :> 74) @@ (78 :> 77)
  @@ (79 :> 81) @@ (80 :> 84) @@ (81 :> 88) @@ (82 :> 92) @@ (83 :> 95) @@ (84 :> 99)
  @@ (85 :> 104) @@ (86 :> 108) @@ (87 :> 113) @@ (88 :> 117) @@ (89 :> 123) @@ (90 :> 128)
  @@ (91 :> 134) @@ (92 :> 141) @@ (93 :> 148) @@ (94 :> 155) @@ (95 :> 164) @@ (96 :> 175)
  @@ (97 :> 188) @@ (98 :> 205) @@ (99 :> 233)

normsinv_in(region, p) ==
  IF region = "domain_error" THEN Raise("ValueError")
  ELSE [kind |-> "value", region |-> region,
        val |-> Rat(normsinv_table[(100 * p[1]) \div p[2]], 100)]

normsinv(p) == normsinv_in(normsinv_region(p), p)

\* z / abs(z) divides by zero at z = 0; Math is not a name of core.py.
normsdist(z) ==
  IF REq(z, R(0)) THEN Raise("ZeroDivisionError") ELSE Raise("NameError")

\* math.pow(base, 1/L) times M.  math.pow raises ValueError for a negative
\* base with a non-integer exponent and for a zero base with a negative
\* exponent; pow(1.0, y) is 1.0, pow(b, 1.0) is b and pow(b, -1.0) is 1/b.
\* Any other power is kept as the term <<"pow", M, base, L>>, a number as
\* <<"num", v>>.
m_times_pow(M, base, L) ==
  IF RLt(base, R(0)) /\ Abs(L[1]) # 1 THEN Raise("ValueError")
  ELSE IF REq(base, R(0)) /\ RLt(L, R(0)) THEN Raise("ValueError")
  ELSE IF REq(base, R(1)) THEN Value(<<"num", M>>)
  ELSE IF REq(L, R(1)) THEN Value(<<"num", RMul(M, base)>>)
  ELSE IF REq(L, R(-1)) THEN Value(<<"num", RDiv(M, base)>>)
  ELSE Value(<<"pow", M, base, L>>)

\* M * math.pow(1 + L*S*Z, 1/L) for L != 0, M * Math.exp(S*Z) otherwise:
\* Math is not a name of core.py.
zscore_to_x(Z, L, M, S) ==
  IF ~REq(L, R(0))
  THEN m_times_pow(M, RAdd(R(1), RMul(RMul(L, S), Z)), L)
  ELSE Raise("NameError")

\* Math.pow / Math.log: Math is not a name of core.py.
x_to_zscore(x, L, M, S) == Raise("NameError")

\* A call on the outcome of the call before it: an exception passes through.
zscore_to_x_of(Z, L, M, S) == IF IsRaise(Z) THEN Z ELSE zscore_to_x(Z.val, L, M, S)
normsdist_of(Z) == IF IsRaise(Z) THEN Z ELSE normsdist(Z.val)

percentile_to_x(percentile, L, M, S) ==
  zscore_to_x_of(normsinv(Rat(percentile, 100)), L, M, S)

x_to_percentile(x, L, M, S) == normsdist_of(x_to_zscore(x, L, M, S))

\* ------------------------------------------------------------------------
\* constants.py (names imported by gc_stats.py)
\* ------------------------------------------------------------------------
MALE == "male"
FEMALE == "female"
GC_WEIGHT_WHO == "WHO_WEIGHT"
GC_HEIGHT_WHO == "WHO_LENGTH"
GC_WFL_WHO == "WHO_WFL"
GC_HC_WHO == "WHO_HEADC"
DEFAULT_PERCENTILES == <<2, 5, 10, 25, 50, 75, 90, 95, 98>>

\* The chart types init() hands to load_percentile_cache, in order.
PrePopulated == <<GC_WEIGHT_WHO, GC_HEIGHT_WHO, GC_WFL_WHO>>
PrePopulatedSet == {PrePopulated[i] : i \in 1..Len(PrePopulated)}

\* ------------------------------------------------------------------------
\* gc_stats.py: pure functions over an LMS table
\* ------------------------------------------------------------------------
Row(x, L, M, S) == [x |-> x, L |-> L, M |-> M, S |-> S]
LMSOf(L, M, S) == [L |-> L, M |-> M, S |-> S]

RECURSIVE lms_scan(_, _, _)
lms_scan(LMS_table, x, i) ==
  LET n == Len(LMS_table)
  IN  IF i > n THEN None
      ELSE IF REq(x, LMS_table[i].x)
      THEN Value(LMSOf(LMS_table[i].L, LMS_table[i].M, LMS_table[i].S))
      ELSE IF i < n /\ RLt(LMS_table[i].x, x) /\ RLe(x, LMS_table[i + 1].x)
      THEN LET weight == RDiv(RSub(x, LMS_table[i].x),
                              RSub(LMS_table[i + 1].x, LMS_table[i].x))
           IN  Value(LMSOf(weighted_avg(LMS_table[i].L, LMS_table[i + 1].L, weight),
                           weighted_avg(LMS_table[i].M, LMS_table[i + 1].M, weight),
                           weighted_avg(LMS_table[i].S, LMS_table[i + 1].S, weight)))
      ELSE lms_scan(LMS_table, x, i + 1)

\* Where the loop of get_lms_for_x stops: at row i's exact match, at the
\* interpolation between rows i and i + 1, or at the end of the table.
RECURSIVE lms_stop(_, _, _)
lms_stop(LMS_table, x, i) ==
  IF i > Len(LMS_table) THEN [branch |-> "none", i |-> i]
  ELSE IF REq(x, LMS_table[i].x) THEN [branch |-> "exact", i |-> i]
  ELSE IF i < Len(LMS_table) /\ RLt(LMS_table[i].x, x) /\ RLe(x, LMS_table[i + 1].x)
  THEN [branch |-> "interpolate", i |-> i]
  ELSE lms_stop(LMS_table, x, i + 1)

\* A lookup that answers an x outside the table with the nearest row.
get_lms_for_x_nearest(LMS_table, x) ==
  IF RLt(x, LMS_table[1].x)
  THEN Value(LMSOf(LMS_table[1].L, LMS_table[1].M, LMS_table[1].S))
  ELSE IF RLt(LMS_table[Len(LMS_table)].x, x)
  THEN Value(LMSOf(LMS_table[Len(LMS_table)].L, LMS_table[Len(LMS_table)].M,
                   LMS_table[Len(LMS_table)].S))
  ELSE lms_scan(LMS_table, x, 1)

get_lms_for_x(LMS_table, x) == lms_scan(LMS_table, x, 1)

\* [percentile_to_x(p, row.L, row.M, row.S) for p in percentiles]: the list of
\* values, built left to right, or the first exception raised.
RECURSIVE row_values_from(_, _, _, _)
\* The list built by inserting each value at the front.
row_values_prepend(row, percentiles, j, vals, v) ==
  IF IsRaise(v) THEN v
  ELSE row_values_from(row, percentiles, j + 1, <<v.val>> \o vals)

row_values_add(row, percentiles, j, vals, v) ==
  IF IsRaise(v) THEN v
  ELSE row_values_from(row, percentiles, j + 1, Append(vals, v.val))

row_values_from(row, percentiles, j, vals) ==
  IF j > Len(percentiles) THEN Value(vals)
  ELSE row_values_add(row, percentiles, j, vals,
                      percentile_to_x(percentiles[j], row.L, row.M, row.S))

row_values(row, percentiles) == row_values_from(row, percentiles, 1, <<>>)

\* rows[key] = vals of a Python dict: an existing key keeps its place and
\* takes the new value, a new key is appended.
dict_put(rows, key, vals) ==
  IF \E i \in 1..Len(rows) : REq(rows[i].x, key)
  THEN [i \in 1..Len(rows) |->
          IF REq(rows[i].x, key) THEN [x |-> rows[i].x, vals |-> vals] ELSE rows[i]]
  ELSE Append(rows, [x |-> key, vals |-> vals])

\* The dict comprehension {row['x']: [...] for row in LMS_table}.
RECURSIVE lms_rows(_, _, _, _)
lms_rows_add(LMS_table, percentiles, i, rows, vals) ==
  IF IsRaise(vals) THEN vals
  ELSE lms_rows(LMS_table, percentiles, i + 1,
                dict_put(rows, LMS_table[i].x, vals.val))

lms_rows(LMS_table, percentiles, i, rows) ==
  IF i > Len(LMS_table) THEN Value(rows)
  ELSE lms_rows_add(LMS_table, percentiles, i, rows,
                    row_values(LMS_table[i], percentiles))

\* pd.DataFrame.from_dict(rows, orient='index', columns=percentiles): the
\* frame's columns and its rows in index order.
data_frame(rows, percentiles) ==
  IF IsRaise(rows) THEN rows
  ELSE Value([columns |-> percentiles, rows |-> rows.val])

lms_to_percentiles(LMS_table, percentiles) ==
  data_frame(lms_rows(LMS_table, percentiles, 1, <<>>), percentiles)

\* ------------------------------------------------------------------------
\* The reference-data file GCCurveData.json and the requests of the model
\* ------------------------------------------------------------------------
Threads == {"t1", "t2"}
Sexes == {MALE, FEMALE}

Table(L, M) ==
  <<Row(R(0), L, M, <<1, 10>>), Row(R(1), L, RAdd(M, R(1)), <<1, 10>>)>>

\* Every pre-populated chart type with both sexes; head circumference for one.
DataGood ==
  (GC_WEIGHT_WHO :> (MALE :> Table(R(1), R(3)) @@ FEMALE :> Table(R(1), R(5))))
  @@ (GC_HEIGHT_WHO :> (MALE :> Table(R(1), R(7)) @@ FEMALE :> Table(R(1), R(9))))
  @@ (GC_WFL_WHO :> (MALE :> Table(R(-1), R(3)) @@ FEMALE :> Table(R(-1), R(5))))
  @@ (GC_HC_WHO :> (MALE :> Table(R(2), R(7))))

\* WHO_LENGTH without its FEMALE table.
DataNoFemale ==
  [DataGood EXCEPT ![GC_HEIGHT_WHO] = (MALE :> Table(R(1), R(7)))]

\* A WHO_WFL row on which math.pow gets a negative base (L = 2, S = 1).
DataDomainError ==
  [DataGood EXCEPT ![GC_WFL_WHO][FEMALE] = <<Row(R(0), R(2), R(3), R(1))>>]

\* The parsed documents, by name: the state holds a reference (Dict) to one.
Documents ==
  [good |-> DataGood, no_female |-> DataNoFemale, domain_error |-> DataDomainError]

Dict(name) == [kind |-> "dict", name |-> name]
Deref(ref) == Documents[ref.name]

Files ==
  {[state |-> "missing"], [state |-> "malformed"]}
  \cup {[state |-> "ok", data |-> Dict(n)] : n \in DOMAIN Documents}

GcTypes == {GC_WEIGHT_WHO, GC_HC_WHO, "NO_SUCH_CHART"}
SexArgs == {MALE, FEMALE, "other"}

Permuted == <<5, 2, 10, 25, 50, 75, 90, 95, 98>>
Extended == Append(DEFAULT_PERCENTILES, 99)
PercentileArgs == {DEFAULT_PERCENTILES, Permuted, Extended, <<50>>, <<0, 50>>}
XArgs == {R(-1), <<1, 2>>, R(2)}
\* The median of the WHO_WEIGHT male table half-way between its rows.
ValArg == <<7, 2>>

\* ------------------------------------------------------------------------
\* State
\* ------------------------------------------------------------------------
VARIABLES
  GC_DATA,            \* the module global: None or the loaded data set
  percentile_cache,   \* _percentile_cache: chart type -> sex -> data frame
  file,               \* GCCurveData.json
  chart,              \* the chart type and sex the caller asks about
  pc,                 \* per thread: where it is inside init()
  local,              \* per thread: json.load's result, gc_data, loop index
  last,               \* the call that ended last: its arguments and outcome
  fileReads,          \* how often the file has been read
  initDone,           \* some init() call has run to its end
  initFailed,         \* some init() call has raised
  tbl, qx, lms        \* table, x and result of a bare get_lms_for_x call

vars == <<GC_DATA, percentile_cache, file, chart, pc, local, last, fileReads,
          initDone, initFailed, tbl, qx, lms>>

registry == <<GC_DATA, percentile_cache, file, chart, pc, local, last, fileReads,
              initDone, initFailed>>
lookup == <<tbl, qx, lms>>

NotCalled == [kind |-> "not_called"]
NoLocal == [loaded |-> None, gc_data |-> None, i |-> 0]
EmptyCache == <<>>

\* What the registry was when a call was made.
RegistryState ==
  [loaded |-> GC_DATA # None, done |-> initDone, failed |-> initFailed,
   cached |-> DOMAIN percentile_cache]

Call(op, gc_type, sex, percentiles, x, out) ==
  [op |-> op, gc_type |-> gc_type, sex |-> sex, percentiles |-> percentiles,
   x |-> x, out |-> out, at |-> RegistryState]

NoCall == [op |-> "none", gc_type |-> "", sex |-> "", percentiles |-> <<>>,
           x |-> R(0), out |-> None,
           at |-> [loaded |-> FALSE, done |-> FALSE, failed |-> FALSE, cached |-> {}]]

InitCallRecord(out) == Call("init", "", "", <<>>, R(0), out)

Init ==
  /\ GC_DATA = None
  /\ percentile_cache = EmptyCache
  /\ file \in Files
  /\ chart \in [gc_type : GcTypes, sex : SexArgs]
  /\ pc = [t \in Threads |-> "idle"]
  /\ local = [t \in Threads |-> NoLocal]
  /\ last = NoCall
  /\ fileReads = 0
  /\ initDone = FALSE
  /\ initFailed = FALSE
  /\ tbl = <<>>
  /\ qx = R(0)
  /\ lms = NotCalled

\* ------------------------------------------------------------------------
\* gc_stats.py: init() and load_percentile_cache(), step by step
\* ------------------------------------------------------------------------
\* if GC_DATA is not None: return
already_initialized_never(data) == FALSE

already_initialized(data) == data # None

\* A thread calls init(): it returns at once, or goes on to the file.
InitCall(t) ==
  /\ pc[t] = "idle"
  /\ fileReads < MaxReads
  /\ IF already_initialized(GC_DATA)
     THEN /\ last' = InitCallRecord(None)
          /\ UNCHANGED pc
     ELSE /\ pc' = [pc EXCEPT ![t] = "open"]
          /\ UNCHANGED last
  /\ UNCHANGED <<GC_DATA, percentile_cache, file, chart, local, fileReads,
                 initDone, initFailed, lookup>>

\* with open(GCCURVEDATA_FILE) as f: json.load(f)
InitRead(t) ==
  /\ pc[t] = "open"
  /\ CASE file.state = "missing" ->
            /\ pc' = [pc EXCEPT ![t] = "idle"]
            /\ last' = InitCallRecord(Raise("FileNotFoundError"))
            /\ initFailed' = TRUE
            /\ UNCHANGED <<local, fileReads>>
       [] file.state = "malformed" ->
            /\ pc' = [pc EXCEPT ![t] = "idle"]
            /\ last' = InitCallRecord(Raise("JSONDecodeError"))
            /\ initFailed' = TRUE
            /\ fileReads' = fileReads + 1
            /\ UNCHANGED local
       [] file.state = "ok" ->
            /\ pc' = [pc EXCEPT ![t] = "assign"]
            /\ local' = [local EXCEPT ![t].loaded = file.data]
            /\ fileReads' = fileReads + 1
            /\ UNCHANGED <<last, initFailed>>
  /\ UNCHANGED <<GC_DATA, percentile_cache, file, chart, initDone, lookup>>

\* GC_DATA = <the loaded data>, then the call load_percentile_cache(GC_DATA,
\* [...]), whose first argument is the global as it is then.
InitAssign(t) ==
  /\ pc[t] = "assign"
  /\ GC_DATA' = local[t].loaded
  /\ local' = [local EXCEPT ![t].gc_data = GC_DATA', ![t].i = 1]
  /\ pc' = [pc EXCEPT ![t] = "cache"]
  /\ UNCHANGED <<percentile_cache, file, chart, last, fileReads,
                 initDone, initFailed, lookup>>

\* Both sexes' curves computed from the MALE table.
cache_curve_male(gc_data, gc_type, sex) ==
  IF gc_type \notin DOMAIN Deref(gc_data) \/ sex \notin DOMAIN Deref(gc_data)[gc_type]
  THEN Raise("KeyError")
  ELSE lms_to_percentiles(Deref(gc_data)[gc_type][MALE], DEFAULT_PERCENTILES)

\* gc_data[gc_type]['data'][sex], then lms_to_percentiles of it.
cache_curve(gc_data, gc_type, sex) ==
  IF gc_type \notin DOMAIN Deref(gc_data) \/ sex \notin DOMAIN Deref(gc_data)[gc_type]
  THEN Raise("KeyError")
  ELSE lms_to_percentiles(Deref(gc_data)[gc_type][sex], DEFAULT_PERCENTILES)

\* The dict {MALE: ..., FEMALE: ...} of one loop round, or what raised first.
cache_entry(gc_data, gc_type) ==
  LET m == cache_curve(gc_data, gc_type, MALE)
      f == cache_curve(gc_data, gc_type, FEMALE)
  IN  IF IsRaise(m) THEN m
      ELSE IF IsRaise(f) THEN f
      ELSE Value(MALE :> m.val @@ FEMALE :> f.val)

\* _percentile_cache[gc_type] = entry
cache_store(cache, gc_type, entry) ==
  [g \in DOMAIN cache \cup {gc_type} |-> IF g = gc_type THEN entry ELSE cache[g]]

\* load_percentile_cache(gc_data, gc_types) run from round i on without
\* interruption: the cache it leaves, or what it raises.
RECURSIVE load_percentile_cache(_, _, _, _)
load_percentile_cache_store(cache, gc_data, gc_types, i, entry) ==
  IF IsRaise(entry) THEN entry
  ELSE load_percentile_cache(cache_store(cache, gc_types[i], entry.val),
                             gc_data, gc_types, i + 1)

load_percentile_cache(cache, gc_data, gc_types, i) ==
  IF i > Len(gc_types) THEN Value(cache)
  ELSE load_percentile_cache_store(cache, gc_data, gc_types, i,
                                   cache_entry(gc_data, gc_types[i]))

\* A cache that refuses to overwrite: a round that finds its chart type
\* already stored raises KeyError.
InitCacheStore_write_once(t, gc_type, entry) ==
  IF IsRaise(entry) \/ gc_type \in DOMAIN percentile_cache
  THEN /\ pc' = [pc EXCEPT ![t] = "idle"]
       /\ local' = [local EXCEPT ![t] = NoLocal]
       /\ last' = InitCallRecord(IF IsRaise(entry) THEN entry ELSE Raise("KeyError"))
       /\ initFailed' = TRUE
       /\ UNCHANGED percentile_cache
  ELSE /\ percentile_cache' = cache_store(percentile_cache, gc_type, entry.val)
       /\ local' = [local EXCEPT ![t].i = @ + 1]
       /\ UNCHANGED <<pc, last, initFailed>>

\* One round of load_percentile_cache's loop: the entry is stored, or the
\* exception leaves init().
InitCacheStore(t, gc_type, entry) ==
  IF IsRaise(entry)
  THEN /\ pc' = [pc EXCEPT ![t] = "idle"]
       /\ local' = [local EXCEPT ![t] = NoLocal]
       /\ last' = InitCallRecord(entry)
       /\ initFailed' = TRUE
       /\ UNCHANGED percentile_cache
  ELSE /\ percentile_cache' = cache_store(percentile_cache, gc_type, entry.val)
       /\ local' = [local EXCEPT ![t].i = @ + 1]
       /\ UNCHANGED <<pc, last, initFailed>>

InitCacheStep(t) ==
  /\ pc[t] = "cache"
  /\ local[t].i <= Len(PrePopulated)
  /\ InitCacheStore(t, PrePopulated[local[t].i],
                    cache_entry(local[t].gc_data, PrePopulated[local[t].i]))
  /\ UNCHANGED <<GC_DATA, file, chart, fileReads, initDone, lookup>>

\* return GC_DATA
InitReturn(t) ==
  /\ pc[t] = "cache"
  /\ local[t].i > Len(PrePopulated)
  /\ pc' = [pc EXCEPT ![t] = "idle"]
  /\ local' = [local EXCEPT ![t] = NoLocal]
  /\ last' = InitCallRecord(Value(GC_DATA))
  /\ initDone' = TRUE
  /\ UNCHANGED <<GC_DATA, percentile_cache, file, chart, fileReads, initFailed, lookup>>

\* ------------------------------------------------------------------------
\* gc_stats.py: the public queries
\* ------------------------------------------------------------------------
\* GC_DATA is None: no table, and no exception.
get_lms_table_lenient(data, gc_type, sex) ==
  IF data = None THEN None
  ELSE IF gc_type \notin DOMAIN Deref(data) \/ sex \notin DOMAIN Deref(data)[gc_type]
  THEN None
  ELSE Value(Deref(data)[gc_type][sex])

\* `gc_type not in GC_DATA` raises TypeError while GC_DATA is None.
get_lms_table(data, gc_type, sex) ==
  IF data = None THEN Raise("TypeError")
  ELSE IF gc_type \notin DOMAIN Deref(data) \/ sex \notin DOMAIN Deref(data)[gc_type]
  THEN None
  ELSE Value(Deref(data)[gc_type][sex])

Empty == [kind |-> "empty"]
Cached(curve) == [kind |-> "cached", val |-> curve]
Computed(curve) == [kind |-> "computed", val |-> curve]

\* The outcome of get_percentile_lines and the cache it leaves behind.
get_percentile_lines_memo(data, cache, gc_type, sex, percentiles) ==
  LET LMS_table == get_lms_table(data, gc_type, sex)
      curve == lms_to_percentiles(LMS_table.val, percentiles)
  IN  IF IsRaise(LMS_table) THEN [out |-> LMS_table, cache |-> cache]
      ELSE IF LMS_table = None THEN [out |-> Empty, cache |-> cache]
      ELSE IF gc_type \in DOMAIN cache /\ sex \in DOMAIN cache[gc_type]
      THEN [out |-> Cached(cache[gc_type][sex]), cache |-> cache]
      ELSE IF IsRaise(curve) THEN [out |-> curve, cache |-> cache]
      ELSE [out |-> Computed(curve.val),
            cache |-> cache_store(cache, gc_type, (sex :> curve.val))]

get_percentile_lines_any_order(data, cache, gc_type, sex, percentiles) ==
  LET LMS_table == get_lms_table(data, gc_type, sex)
      same == {percentiles[j] : j \in 1..Len(percentiles)}
                = {DEFAULT_PERCENTILES[j] : j \in 1..Len(DEFAULT_PERCENTILES)}
      curve == lms_to_percentiles(LMS_table.val, percentiles)
  IN  IF IsRaise(LMS_table) THEN [out |-> LMS_table, cache |-> cache]
      ELSE IF LMS_table = None THEN [out |-> Empty, cache |-> cache]
      ELSE IF same /\ gc_type \in DOMAIN cache
      THEN [out |-> Cached(cache[gc_type][sex]), cache |-> cache]
      ELSE IF IsRaise(curve) THEN [out |-> curve, cache |-> cache]
      ELSE [out |-> Computed(curve.val), cache |-> cache]

get_percentile_lines_cache_first(data, cache, gc_type, sex, percentiles) ==
  LET LMS_table == get_lms_table(data, gc_type, sex)
      curve == lms_to_percentiles(LMS_table.val, percentiles)
  IN  IF percentiles = DEFAULT_PERCENTILES /\ gc_type \in DOMAIN cache
      THEN [out |-> IF sex \in DOMAIN cache[gc_type]
                    THEN Cached(cache[gc_type][sex]) ELSE Raise("KeyError"),
            cache |-> cache]
      ELSE IF IsRaise(LMS_table) THEN [out |-> LMS_table, cache |-> cache]
      ELSE IF LMS_table = None THEN [out |-> Empty, cache |-> cache]
      ELSE IF IsRaise(curve) THEN [out |-> curve, cache |-> cache]
      ELSE [out |-> Computed(curve.val), cache |-> cache]

get_percentile_lines(data, cache, gc_type, sex, percentiles) ==
  LET LMS_table == get_lms_table(data, gc_type, sex)
      curve == lms_to_percentiles(LMS_table.val, percentiles)
  IN  IF IsRaise(LMS_table) THEN [out |-> LMS_table, cache |-> cache]
      ELSE IF LMS_table = None THEN [out |-> Empty, cache |-> cache]
      ELSE IF percentiles = DEFAULT_PERCENTILES /\ gc_type \in DOMAIN cache
      THEN [out |-> IF sex \in DOMAIN cache[gc_type]
                    THEN Cached(cache[gc_type][sex]) ELSE Raise("KeyError"),
            cache |-> cache]
      ELSE IF IsRaise(curve) THEN [out |-> curve, cache |-> cache]
      ELSE [out |-> Computed(curve.val), cache |-> cache]

\* LMS = get_lms_for_x(...); LMS['L'] raises TypeError when LMS is None.
percentile(data, gc_type, sex, x, val) ==
  LET LMS_table == get_lms_table(data, gc_type, sex)
      LMS == get_lms_for_x(LMS_table.val, x)
  IN  IF IsRaise(LMS_table) THEN LMS_table
      ELSE IF LMS_table = None THEN None
      ELSE IF LMS = None THEN Raise("TypeError")
      ELSE x_to_percentile(val, LMS.val.L, LMS.val.M, LMS.val.S)

zscore(data, gc_type, sex, x, val) ==
  LET LMS_table == get_lms_table(data, gc_type, sex)
      LMS == get_lms_for_x(LMS_table.val, x)
  IN  IF IsRaise(LMS_table) THEN LMS_table
      ELSE IF LMS_table = None THEN None
      ELSE IF LMS = None THEN Raise("TypeError")
      ELSE x_to_zscore(val, LMS.val.L, LMS.val.M, LMS.val.S)

\* Queries are made by a thread that is not inside init().
GetPercentileLines ==
  /\ \E t \in Threads : pc[t] = "idle"
  /\ \E percentiles \in PercentileArgs :
       LET r == get_percentile_lines(GC_DATA, percentile_cache, chart.gc_type, chart.sex,
                                     percentiles)
       IN  /\ last' = Call("get_percentile_lines", chart.gc_type, chart.sex, percentiles,
                           R(0), r.out)
           /\ percentile_cache' = r.cache
  /\ UNCHANGED <<GC_DATA, file, chart, pc, local, fileReads, initDone, initFailed, lookup>>

Percentile ==
  /\ \E t \in Threads : pc[t] = "idle"
  /\ \E x \in XArgs :
       last' = Call("percentile", chart.gc_type, chart.sex, <<>>, x,
                    percentile(GC_DATA, chart.gc_type, chart.sex, x, ValArg))
  /\ UNCHANGED <<GC_DATA, percentile_cache, file, chart, pc, local, fileReads,
                 initDone, initFailed, lookup>>

Zscore ==
  /\ \E t \in Threads : pc[t] = "idle"
  /\ \E x \in XArgs :
       last' = Call("zscore", chart.gc_type, chart.sex, <<>>, x,
                    zscore(GC_DATA, chart.gc_type, chart.sex, x, ValArg))
  /\ UNCHANGED <<GC_DATA, percentile_cache, file, chart, pc, local, fileReads,
                 initDone, initFailed, lookup>>

Next ==
  \/ \E t \in Threads :
       \/ InitCall(t)
       \/ InitRead(t)
       \/ InitAssign(t)
       \/ InitCacheStep(t)
       \/ InitReturn(t)
  \/ GetPercentileLines
  \/ Percentile
  \/ Zscore

Spec == Init /\ [][Next]_vars

\* Sequential use: every call is made by the one thread t1.
SeqNext ==
  \/ InitCall("t1")
  \/ InitRead("t1")
  \/ InitAssign("t1")
  \/ InitCacheStep("t1")
  \/ InitReturn("t1")
  \/ GetPercentileLines
  \/ Percentile
  \/ Zscore

SeqSpec == Init /\ [][SeqNext]_vars

\* ------------------------------------------------------------------------
\* get_lms_for_x on its own: every table sorted strictly ascending by x,
\* with x in 0..MaxX and at most MaxRows rows, and every x = k / XDen
\* from below the first possible row to above the last.
\* ------------------------------------------------------------------------
LValues == {R(-1), R(1)}
MValues == {R(3), R(4)}
\* S varies with M, as M / 20.
LMSValues == {LMSOf(l, m, RDiv(m, R(20))) : l \in LValues, m \in MValues}

RECURSIVE Ascending(_)
Ascending(X) ==
  IF X = {} THEN <<>>
  ELSE LET m == CHOOSE a \in X : \A b \in X : a <= b
       IN  <<m>> \o Ascending(X \ {m})

TablesOver(X) ==
  LET xs == Ascending(X)
  IN  {[i \in 1..Len(xs) |-> Row(R(xs[i]), v[i].L, v[i].M, v[i].S)] :
         v \in [1..Len(xs) -> LMSValues]}

SortedTables ==
  UNION {TablesOver(X) :
           X \in {Y \in SUBSET (0..MaxX) : Cardinality(Y) \in 1..MaxRows}}

QueryXs == {Rat(k, XDen) : k \in (-XDen)..((MaxX + 1) * XDen)}

InitLookup ==
  /\ GC_DATA = None
  /\ percentile_cache = EmptyCache
  /\ file = [state |-> "missing"]
  /\ chart = [gc_type |-> GC_WEIGHT_WHO, sex |-> MALE]
  /\ pc = [t \in Threads |-> "idle"]
  /\ local = [t \in Threads |-> NoLocal]
  /\ last = NoCall
  /\ fileReads = 0
  /\ initDone = FALSE
  /\ initFailed = FALSE
  /\ tbl \in SortedTables
  /\ qx = R(0)
  /\ lms = NotCalled

LookupX ==
  /\ \E x \in QueryXs :
       /\ qx' = x
       /\ lms' = get_lms_for_x(tbl, x)
  /\ UNCHANGED <<registry, tbl>>

LookupSpec == InitLookup /\ [][LookupX]_vars

\* ------------------------------------------------------------------------
\* get_lms_for_x on tables that need not be sorted: every sequence of at
\* most MaxRows rows with x in 0..MaxX, duplicates and descents included.
\* ------------------------------------------------------------------------
RowValues == {Row(R(x), v.L, v.M, v.S) :
                x \in 0..MaxX, v \in {LMSOf(R(-1), R(3), <<3, 20>>),
                                      LMSOf(R(1), R(4), <<1, 5>>)}}

AnyTables == UNION {[1..n -> RowValues] : n \in 1..MaxRows}

InitMalformed ==
  /\ GC_DATA = None
  /\ percentile_cache = EmptyCache
  /\ file = [state |-> "missing"]
  /\ chart = [gc_type |-> GC_WEIGHT_WHO, sex |-> MALE]
  /\ pc = [t \in Threads |-> "idle"]
  /\ local = [t \in Threads |-> NoLocal]
  /\ last = NoCall
  /\ fileReads = 0
  /\ initDone = FALSE
  /\ initFailed = FALSE
  /\ tbl \in AnyTables
  /\ qx = R(0)
  /\ lms = NotCalled

MalformedSpec == InitMalformed /\ [][LookupX]_vars

\* ------------------------------------------------------------------------
\* core.py on its own: normsinv at every p = k / 100 from below 0 to above
\* 1, normsdist, and percentile_to_x on LMS values of every branch.
\* ------------------------------------------------------------------------
Probabilities == {Rat(k, 100) : k \in (-MaxOver)..(100 + MaxOver)}
ZArgs == {R(-1), R(0), R(1)}
CoreL == {R(-1), R(0), <<1, 2>>, R(1), R(2)}
CoreM == {R(m) : m \in 1..MaxM}
CoreS == {<<1, 10>>, <<1, 5>>}
CorePercentiles == {2, 50, 98}

InitCore ==
  /\ GC_DATA = None
  /\ percentile_cache = EmptyCache
  /\ file = [state |-> "missing"]
  /\ chart = [gc_type |-> GC_WEIGHT_WHO, sex |-> MALE]
  /\ pc = [t \in Threads |-> "idle"]
  /\ local = [t \in Threads |-> NoLocal]
  /\ last = NoCall
  /\ fileReads = 0
  /\ initDone = FALSE
  /\ initFailed = FALSE
  /\ tbl = <<>>
  /\ qx = R(0)
  /\ lms = NotCalled

NormsInv ==
  /\ \E p \in Probabilities :
       last' = Call("normsinv", "", "", <<>>, p, normsinv(p))
  /\ tbl' = <<>>
  /\ UNCHANGED <<GC_DATA, percentile_cache, file, chart, pc, local, fileReads,
                 initDone, initFailed, qx, lms>>

NormsDist ==
  /\ \E z \in ZArgs :
       last' = Call("normsdist", "", "", <<>>, z, normsdist(z))
  /\ tbl' = <<>>
  /\ UNCHANGED <<GC_DATA, percentile_cache, file, chart, pc, local, fileReads,
                 initDone, initFailed, qx, lms>>

\* percentile_to_x(percentile, L, M, S); tbl keeps L, M and S as one row.
PercentileToX ==
  /\ \E p \in CorePercentiles, L \in CoreL, M \in CoreM, S \in CoreS :
       /\ tbl' = <<Row(R(0), L, M, S)>>
       /\ last' = Call("percentile_to_x", "", "", <<p>>, R(0),
                       percentile_to_x(p, L, M, S))
  /\ UNCHANGED <<GC_DATA, percentile_cache, file, chart, pc, local, fileReads,
                 initDone, initFailed, qx, lms>>

CoreNext == NormsInv \/ NormsDist \/ PercentileToX

CoreSpec == InitCore /\ [][CoreNext]_vars

\* ------------------------------------------------------------------------
\* lms_to_percentiles on its own: every sorted table, every percentile list
\* of the requests.
\* ------------------------------------------------------------------------
LmsToPercentiles ==
  /\ \E percentiles \in PercentileArgs :
       last' = Call("lms_to_percentiles", "", "", percentiles, R(0),
                    lms_to_percentiles(tbl, percentiles))
  /\ UNCHANGED <<GC_DATA, percentile_cache, file, chart, pc, local, fileReads,
                 initDone, initFailed, lookup>>

CurveSpec == InitLookup /\ [][LmsToPercentiles]_vars

\* ------------------------------------------------------------------------
\* Properties
\* ------------------------------------------------------------------------
Queries == {"get_percentile_lines", "percentile", "zscore"}

\* The file holds a table for this chart type and sex.
KnownChart(gc_type, sex) ==
  /\ file.state = "ok"
  /\ gc_type \in DOMAIN Deref(file.data)
  /\ sex \in DOMAIN Deref(file.data)[gc_type]

TableOf(gc_type, sex) == Deref(file.data)[gc_type][sex]

\* What a call returns that computes its curve afresh.
Fresh(curve) == IF IsRaise(curve) THEN curve ELSE Computed(curve.val)

\* What one init() call on its own leaves in the cache, or what it raises.
SingleInit ==
  IF file.state = "ok"
  THEN load_percentile_cache(EmptyCache, file.data, PrePopulated, 1)
  ELSE Raise("FileNotFoundError or JSONDecodeError")

AllIdle == \A t \in Threads : pc[t] = "idle"

\* C1: for a known chart type and sex, get_percentile_lines returns the cache
\* entry exactly when percentiles equals the default list, in order, and the
\* chart type has been pre-populated; every other request gets the freshly
\* computed lms_to_percentiles(table, percentiles), which is not the cached
\* object and, for another list than the default, not its value either.
C1_CacheHitOnlyForDefaultList ==
  (/\ last.op = "get_percentile_lines"
   /\ last.at.loaded
   /\ KnownChart(last.gc_type, last.sex))
  => IF last.percentiles = DEFAULT_PERCENTILES /\ last.gc_type \in last.at.cached
     THEN last.out = Cached(percentile_cache[last.gc_type][last.sex])
     ELSE /\ last.out = Fresh(lms_to_percentiles(TableOf(last.gc_type, last.sex),
                                                 last.percentiles))
          /\ last.out.kind # "cached"
          /\ (/\ last.out.kind = "computed"
              /\ last.percentiles # DEFAULT_PERCENTILES
              /\ last.gc_type \in DOMAIN percentile_cache)
             => last.out.val # percentile_cache[last.gc_type][last.sex]

C1_Witness ==
  /\ last.op = "get_percentile_lines"
  /\ last.at.done
  /\ last.gc_type = GC_WEIGHT_WHO
  /\ last.sex = MALE
  /\ last.percentiles = Permuted
  /\ last.out.kind = "computed"

\* C2: once an init() call has run to its end, no step changes GC_DATA or the
\* percentile cache, and every get_percentile_lines call with the default
\* percentiles for a pre-populated chart type and a known sex returns the
\* entry the cache held then.
C2_CacheWrittenOnlyByInit ==
  [][initDone =>
       /\ GC_DATA' = GC_DATA
       /\ percentile_cache' = percentile_cache
       /\ (/\ last'.op = "get_percentile_lines"
           /\ last'.at.done
           /\ last'.percentiles = DEFAULT_PERCENTILES
           /\ last'.gc_type \in PrePopulatedSet
           /\ KnownChart(last'.gc_type, last'.sex))
          => last'.out = Cached(percentile_cache[last'.gc_type][last'.sex])]_vars

C2_Witness ==
  /\ initDone
  /\ last.op = "get_percentile_lines"
  /\ last.at.done
  /\ last.percentiles = DEFAULT_PERCENTILES
  /\ last.gc_type \in PrePopulatedSet
  /\ last.out.kind = "cached"
  /\ fileReads = 2

\* C3: with GC_DATA loaded, get_percentile_lines returns the empty result,
\* and raises nothing, for a chart type the data set does not hold and for a
\* sex the chart type does not hold, whatever the percentiles.
C3_UnknownChartIsEmpty ==
  (/\ last.op = "get_percentile_lines"
   /\ last.at.loaded
   /\ ~KnownChart(last.gc_type, last.sex))
  => last.out = Empty

C3_Witness ==
  /\ last.op = "get_percentile_lines"
  /\ last.at.done
  /\ last.gc_type \in PrePopulatedSet
  /\ last.gc_type \in last.at.cached
  /\ last.sex \notin Sexes
  /\ last.percentiles = DEFAULT_PERCENTILES
  /\ last.out = Empty

\* x lies below the first or above the last tabulated x.
OutOfRange(LMS_table, x) ==
  RLt(x, LMS_table[1].x) \/ RLt(LMS_table[Len(LMS_table)].x, x)

\* C4: percentile and zscore for a known chart type and sex and an x out of
\* the table's range return None.
C4_OutOfRangeIsNone ==
  (/\ last.op \in {"percentile", "zscore"}
   /\ last.at.loaded
   /\ KnownChart(last.gc_type, last.sex)
   /\ OutOfRange(TableOf(last.gc_type, last.sex), last.x))
  => last.out = None

\* C5: in sequential use, once an init() call has run to its end the file
\* has been read exactly once, and no later step reads it again or changes
\* GC_DATA or the percentile cache.
C5_InitIdempotent ==
  [][initDone =>
       /\ fileReads = 1
       /\ fileReads' = fileReads
       /\ GC_DATA' = GC_DATA
       /\ percentile_cache' = percentile_cache]_vars

C5_Witness ==
  /\ initDone
  /\ fileReads = 1
  /\ last.op = "init"
  /\ last.at.done
  /\ last.out = None

\* C6: on a file that one init() call on its own loads without error, no
\* init() call of racing threads raises, and whenever no thread is inside
\* init() the registry is either untouched or holds the file's data and the
\* cache that one call produces; a thread inside the cache loop is at one of
\* its rounds or at the return.
C6_RacingInitsAgree ==
  /\ (last.op = "init" /\ IsRaise(last.out)) => ~IsValue(SingleInit)
  /\ (AllIdle /\ GC_DATA = None) => (percentile_cache = EmptyCache /\ ~initDone)
  /\ (AllIdle /\ GC_DATA # None /\ IsValue(SingleInit)) =>
       /\ initDone
       /\ GC_DATA = file.data
       /\ percentile_cache = SingleInit.val
  /\ \A t \in Threads :
       pc[t] = "cache" => local[t].i \in 1..(Len(PrePopulated) + 1)

\* Two threads have both read the file and both run to the end of init().
C6_Witness ==
  /\ AllIdle
  /\ initDone
  /\ fileReads = 2
  /\ last.op = "init"
  /\ last.out = Value(file.data)
  /\ IsValue(SingleInit)
  /\ percentile_cache = SingleInit.val

\* C7: after an init() call has raised, every get_percentile_lines,
\* percentile and zscore call raises.
C7_FailedInitStaysUnusable ==
  (last.op \in Queries /\ last.at.failed) => IsRaise(last.out)

\* C8: a query made while GC_DATA is None raises, and leaves GC_DATA and the
\* percentile cache as they were.
C8_UninitializedQueryRaises ==
  [][(last' # last /\ last'.op \in Queries /\ ~last'.at.loaded) =>
       /\ IsRaise(last'.out)
       /\ GC_DATA' = GC_DATA
       /\ percentile_cache' = percentile_cache]_vars

C8_Witness ==
  /\ last.op = "percentile"
  /\ ~last.at.loaded
  /\ last.out = Raise("TypeError")
  /\ GC_DATA = None

Called == lms # NotCalled

\* C9: on a table sorted strictly ascending by x, get_lms_for_x at a
\* tabulated x returns that row's L, M and S.
C9_ExactRowUnmodified ==
  Called =>
    \A k \in 1..Len(tbl) :
      REq(qx, tbl[k].x) => lms = Value(LMSOf(tbl[k].L, tbl[k].M, tbl[k].S))

\* The exact match of a row that is not the first, after a row that differs
\* from it in L, M and S.
C9_Witness ==
  /\ Called
  /\ Len(tbl) = 3
  /\ REq(qx, tbl[2].x)
  /\ tbl[1].L # tbl[2].L /\ tbl[1].M # tbl[2].M /\ tbl[1].S # tbl[2].S
  /\ lms = Value(LMSOf(tbl[2].L, tbl[2].M, tbl[2].S))

\* a + (b - a) * weight
Blend(a, b, weight) == RAdd(a, RMul(RSub(b, a), weight))
Half(a, b) == RDiv(RAdd(a, b), R(2))

\* C10: for x strictly between two adjacent rows, get_lms_for_x returns
\* a + (b - a) * weight for each of L, M and S, with
\* weight = (x - x_i) / (x_i+1 - x_i); at the midpoint of a two-row table
\* that is the average of the two rows.
C10_LinearInterpolation ==
  Called =>
    /\ \A i \in 1..(Len(tbl) - 1) :
         (RLt(tbl[i].x, qx) /\ RLt(qx, tbl[i + 1].x)) =>
           lms = Value(LMSOf(
                   Blend(tbl[i].L, tbl[i + 1].L,
                         RDiv(RSub(qx, tbl[i].x), RSub(tbl[i + 1].x, tbl[i].x))),
                   Blend(tbl[i].M, tbl[i + 1].M,
                         RDiv(RSub(qx, tbl[i].x), RSub(tbl[i + 1].x, tbl[i].x))),
                   Blend(tbl[i].S, tbl[i + 1].S,
                         RDiv(RSub(qx, tbl[i].x), RSub(tbl[i + 1].x, tbl[i].x)))))
    /\ (Len(tbl) = 2 /\ REq(qx, Half(tbl[1].x, tbl[2].x))) =>
         lms = Value(LMSOf(Half(tbl[1].L, tbl[2].L), Half(tbl[1].M, tbl[2].M),
                           Half(tbl[1].S, tbl[2].S)))

\* A quarter of the way between two rows that differ in L, M and S.
C10_Witness ==
  /\ Called
  /\ Len(tbl) = 2
  /\ RLt(tbl[1].x, qx) /\ RLt(qx, tbl[2].x)
  /\ ~REq(qx, Half(tbl[1].x, tbl[2].x))
  /\ tbl[1].L # tbl[2].L /\ tbl[1].M # tbl[2].M /\ tbl[1].S # tbl[2].S
  /\ IsValue(lms)

\* C11: on a table sorted strictly ascending by x, of one row or more,
\* get_lms_for_x returns None for every x below the first row's x and every
\* x above the last row's x.
C11_NoExtrapolation ==
  (Called /\ OutOfRange(tbl, qx)) => lms = None

\* Above the only row of a one-row table.
C11_Witness ==
  /\ Called
  /\ Len(tbl) = 1
  /\ RLt(tbl[1].x, qx)
  /\ lms = None

\* v lies between a and b, whichever of them is the larger.
Between(a, v, b) == (RLe(a, v) /\ RLe(v, b)) \/ (RLe(b, v) /\ RLe(v, a))

Stop == lms_stop(tbl, qx, 1)
Denominator == RSub(tbl[Stop.i + 1].x, tbl[Stop.i].x)
Weight == RDiv(RSub(qx, tbl[Stop.i].x), Denominator)

\* C19: on every table, sorted or not, whenever get_lms_for_x interpolates
\* between rows i and i + 1 the denominator x[i+1] - x[i] is strictly
\* positive, the weight lies in (0, 1], and each of the returned L, M and S
\* lies between that component of the two rows.
C19_InterpolationWellDefined ==
  (Called /\ Stop.branch = "interpolate") =>
    /\ RLt(R(0), Denominator)
    /\ RLt(R(0), Weight) /\ RLe(Weight, R(1))
    /\ IsValue(lms)
    /\ Between(tbl[Stop.i].L, lms.val.L, tbl[Stop.i + 1].L)
    /\ Between(tbl[Stop.i].M, lms.val.M, tbl[Stop.i + 1].M)
    /\ Between(tbl[Stop.i].S, lms.val.S, tbl[Stop.i + 1].S)

\* An interpolation on a table with a descent and a duplicate x, past the
\* first pair of rows.
C19_Witness ==
  /\ Called
  /\ Len(tbl) = 3
  /\ RLe(tbl[2].x, tbl[1].x)
  /\ Stop = [branch |-> "interpolate", i |-> 2]
  /\ tbl[2].M # tbl[3].M
  /\ ~REq(qx, tbl[3].x)

\* The L, M and S a percentile_to_x call was given.
Given == tbl[1]

\* C13: percentile_to_x(50, L, M, S) returns exactly M for every M > 0 and
\* every S, for L # 0 and for L = 0.
C13_MedianIsM ==
  (/\ last.op = "percentile_to_x"
   /\ last.percentiles = <<50>>
   /\ RLt(R(0), Given.M))
  => last.out = Value(<<"num", Given.M>>)

\* C15: normsdist(0) returns 0.5 and raises nothing.
C15_NormsdistAtZero ==
  (last.op = "normsdist" /\ REq(last.x, R(0))) => last.out = Value(<<1, 2>>)

\* C16: normsinv(p) raises a domain error (ValueError) for every p <= 0 and
\* every p >= 1, and for 0 < p < 1 returns a number computed in the lower
\* region for p < 0.02425, in the upper region for p > 0.97575 and in the
\* central region otherwise.
C16_NormsinvDomainAndRegions ==
  last.op = "normsinv" =>
    IF RLe(last.x, R(0)) \/ RLe(R(1), last.x)
    THEN last.out = Raise("ValueError")
    ELSE /\ IsValue(last.out)
         /\ last.out.region =
              (IF RLt(last.x, <<97, 4000>>) THEN "lower"
               ELSE IF RLt(<<3903, 4000>>, last.x) THEN "upper"
               ELSE "central")

\* The domain error at p = 1, the first p that is no probability inside (0, 1).
C16_Witness ==
  /\ last.op = "normsinv"
  /\ REq(last.x, R(1))
  /\ last.out = Raise("ValueError")

\* percentile_to_x of row i for the j-th requested percentile.
Cell(i, j) == percentile_to_x(last.percentiles[j], tbl[i].L, tbl[i].M, tbl[i].S)

LMSAt == get_lms_for_x(TableOf(last.gc_type, last.sex), last.x)

\* C14: for a known chart type and sex and an x inside the table's range,
\* percentile(gc_type, sex, x, val) with val the interpolated median M at x
\* raises nothing and returns a percentile in [45, 55].
C14_MedianNearFifty ==
  (/\ last.op = "percentile"
   /\ last.at.loaded
   /\ KnownChart(last.gc_type, last.sex)
   /\ ~OutOfRange(TableOf(last.gc_type, last.sex), last.x)
   /\ IsValue(LMSAt)
   /\ REq(ValArg, LMSAt.val.M))
  => /\ IsValue(last.out)
     /\ RLe(R(45), last.out.val)
     /\ RLe(last.out.val, R(55))

\* C17: in every state, GC_DATA is not None implies that the percentile
\* cache holds a MALE and a FEMALE curve for each pre-populated chart type.
C17_LoadedImpliesCacheFull ==
  GC_DATA # None =>
    \A g \in PrePopulatedSet :
      g \in DOMAIN percentile_cache /\ Sexes \subseteq DOMAIN percentile_cache[g]

\* C18: whenever get_percentile_lines returns a cache entry, that entry and
\* every other entry the cache holds is equal in value to
\* lms_to_percentiles(get_lms_table(gc_type, sex), DEFAULT_PERCENTILES)
\* computed from the current GC_DATA.
C18_CacheEqualsRecomputation ==
  (last.op = "get_percentile_lines" /\ last.out.kind = "cached") =>
    /\ GC_DATA # None
    /\ Value(last.out.val) =
         lms_to_percentiles(get_lms_table(GC_DATA, last.gc_type, last.sex).val,
                            DEFAULT_PERCENTILES)
    /\ \A g \in DOMAIN percentile_cache :
         \A sex \in DOMAIN percentile_cache[g] :
           Value(percentile_cache[g][sex]) =
             lms_to_percentiles(get_lms_table(GC_DATA, g, sex).val,
                                DEFAULT_PERCENTILES)

\* The cached FEMALE curve of a pre-populated type, returned after init().
C18_Witness ==
  /\ last.op = "get_percentile_lines"
  /\ last.out.kind = "cached"
  /\ last.sex = FEMALE
  /\ last.at.done
  /\ DOMAIN percentile_cache = PrePopulatedSet

====
